---- MODULE Spec2Model ----
(***************************************************************************)
(* Model of src/dashboard.py: a Streamlit script that registers three      *)
(* parquet datasets as views of one process-wide DuckDB connection and     *)
(* renders three tabs from queries against them.                           *)
(*                                                                         *)
(* Streamlit runs the whole script once per render, one script thread per  *)
(* browser session; st.cache_resource hands every session the same         *)
(* connection, and all sessions share the working directory.  A render is  *)
(* modelled statement by statement at every access to that shared state    *)
(* (a file operation or a con.execute), so renders of different sessions   *)
(* interleave between those statements.                                    *)
(***************************************************************************)
EXTENDS Integers, Sequences, FiniteSets, TLC

Sessions == {"s1", "s2"}

\* Renders started in one behaviour, over all sessions.
MaxRenders == 2

\* Longest input sequence of the reconstruction, shortage and fetch checks.
MaxLen == 3

Tables == <<"waterfall", "daily", "variance">>

\* Default local files (configuration section of the script).
FILE_WATERFALL_PQ == "inventory_waterfall_deltas.parquet"
FILE_DAILY_PQ == "inventory_demand_daily.parquet"
FILE_VARIANCE_PQ == "demand_forecast_variance.parquet"

LocalPath(t) ==
  CASE t = "waterfall" -> FILE_WATERFALL_PQ
    [] t = "daily" -> FILE_DAILY_PQ
    [] t = "variance" -> FILE_VARIANCE_PQ

\* f"temp_{table_name}.parquet"
TempPath(t) ==
  CASE t = "waterfall" -> "temp_waterfall.parquet"
    [] t = "daily" -> "temp_daily.parquet"
    [] t = "variance" -> "temp_variance.parquet"

Paths == {LocalPath(Tables[i]) : i \in 1..3} \cup {TempPath(Tables[i]) : i \in 1..3}

(***************************************************************************)
(* Values.  NULL is SQL NULL / Python None.  Dates are yyyymmdd integers.  *)
(***************************************************************************)
NULL == "NULL"

\* The columns the script's queries name, per dataset.
WfCols == {"Item Code", "Inv Org", "Date", "Snapshot Date", "Previous Snapshot Date",
           "Tot.Inventory_daily", "Tot.Inventory_previous", "Delta_Inventory"}
DailyCols == {"Item Code", "Inv Org", "Snapshot Date", "Date", "Tot.Inventory_daily",
              "Indep.Req_daily", "Net_Inventory_vs_Demand"}
VarCols == {"Item Code", "Inv Org", "Date", "cv_demand_forecast", "mean_demand_forecast"}

\* A file: absent, zero-length (just opened "wb"), garbage bytes, or parquet
\* with a column set and rows in file order.
NoFile == [bytes |-> "absent", cols |-> {}, rows |-> <<>>]
EmptyFile == [bytes |-> "empty", cols |-> {}, rows |-> <<>>]
Garbage == [bytes |-> "garbage", cols |-> {}, rows |-> <<>>]
Parquet(cols, rows) == [bytes |-> "parquet", cols |-> cols, rows |-> rows]

WfRow(item, org, date, snap, prev, totDaily, totPrev, delta) ==
  [item |-> item, org |-> org, date |-> date, snap |-> snap, prev |-> prev,
   totDaily |-> totDaily, totPrev |-> totPrev, delta |-> delta]

DailyRow(item, org, snap, date, totDaily, req, net) ==
  [item |-> item, org |-> org, snap |-> snap, date |-> date,
   totDaily |-> totDaily, req |-> req, net |-> net]

VarRow(item, org, date, cv, mean) ==
  [item |-> item, org |-> org, date |-> date, cv |-> cv, mean |-> mean]


\* An optional number: None, or a one-element tuple holding the value.
None == <<>>
Some(v) == <<v>>

(***************************************************************************)
(* The files a user may upload and the files that may sit in the working   *)
(* directory.  Dates: snapshots 2023-01-08, 2023-12-25, 2024-01-01/08/15,  *)
(* targets 2024-02-01, 2024-03-01, 2024-04-01.                             *)
(***************************************************************************)
WfA == Parquet(WfCols, <<
  WfRow("A", "O1", 20240201, 20240115, 20240108, 85, 80, 5),
  WfRow("A", "O1", 20240201, 20240108, 20240101, 80, 100, -20),
  WfRow("B", "O1", 20240201, 20240108, 20240101, 7, 7, 0),
  WfRow("A", "O2", 20240301, 20240108, 20240101, 30, 40, -10) >>)

\* Two snapshots of different years with the same month-day, and two rows
\* with the same snapshot date.
WfB == Parquet(WfCols, <<
  WfRow("A", "O1", 20240301, 20240108, 20231225, 60, 50, 10),
  WfRow("A", "O1", 20240301, 20230108, 20230101, 50, 55, -5),
  WfRow("A", "O1", 20240301, 20240108, 20231225, 61, 60, 1) >>)

WfEmpty == Parquet(WfCols, <<>>)

DailyA == Parquet(DailyCols, <<
  DailyRow("A", "O1", 20240108, 20240301, 100, 95, 5),
  DailyRow("A", "O1", 20240108, 20240201, 100, 110, -10),
  DailyRow("A", "O1", 20240108, 20240401, 50, 53, -3),
  DailyRow("A", "O1", 20240115, 20240201, 90, 90, 0),
  DailyRow("B", "O1", 20240108, 20240201, 5, 2, 3) >>)

VarA == Parquet(VarCols, << VarRow("A", "O1", 20240201, 2, 10) >>)

\* What st.sidebar.file_uploader returns for each slot; NoFile is None.
\* A user can pick any .parquet-named file: a valid one (WfB, WfEmpty), one
\* of another dataset (DailyA in the waterfall slot), or one that is not
\* parquet (Garbage in the daily slot).
Uploads(t) ==
  CASE t = "waterfall" -> {NoFile, WfB, WfEmpty, DailyA}
    [] t = "daily" -> {NoFile, Garbage}
    [] t = "variance" -> {NoFile}

\* What may be in the working directory under the default names.
LocalFiles(t) ==
  CASE t = "waterfall" -> {NoFile, WfA}
    [] t = "daily" -> {NoFile, DailyA}
    [] t = "variance" -> {NoFile, VarA}

(***************************************************************************)
(* SQL and pandas helpers.                                                 *)
(***************************************************************************)
\* SQL equality: a comparison with NULL matches no row.
SqlEq(a, b) == a # NULL /\ b # NULL /\ a = b

Range(seq) == {seq[i] : i \in 1..Len(seq)}

Perms(n) == {p \in [1..n -> 1..n] : \A i, j \in 1..n : i # j => p[i] # p[j]}

\* ORDER BY: every ordering of the rows that is ascending in the key
\* (keys[i] is the key of rows[i]); rows with equal keys come in an order
\* the engine chooses.
OrderBy(rows, keys) ==
  LET n == Len(rows)
      asc == {p \in Perms(n) : \A i \in 1..n : i < n => keys[p[i]] <= keys[p[i + 1]]}
  IN  {[i \in 1..n |-> rows[p[i]]] : p \in asc}

RECURSIVE SumSeq(_)
SumSeq(xs) == IF xs = <<>> THEN 0 ELSE Head(xs) + SumSeq(Tail(xs))

\* strftime('%m-%d') of a date: month and day, the year is dropped.
strftime_md(d) == <<(d \div 100) % 100, d % 100>>

(***************************************************************************)
(* Tab 1: the rows fetched for the plot and the waterfall built from them. *)
(***************************************************************************)
\* SELECT ... FROM waterfall WHERE "Item Code" = ? AND "Inv Org" = ? AND Date = ?
\* ORDER BY "Snapshot Date"
wf_select(r) ==
  [snap |-> r.snap, prev |-> r.prev, totDaily |-> r.totDaily,
   totPrev |-> r.totPrev, delta |-> r.delta]

\* Fault variant of wf_query: the Date condition is left out of the WHERE.
wf_query_any_date(rows, item, org, date) ==
  LET match(r) == SqlEq(r.item, item) /\ SqlEq(r.org, org)
      hits == SelectSeq(rows, match)
  IN  OrderBy([i \in 1..Len(hits) |-> wf_select(hits[i])],
              [i \in 1..Len(hits) |-> hits[i].snap])

wf_query(rows, item, org, date) ==
  LET match(r) == SqlEq(r.item, item) /\ SqlEq(r.org, org) /\ r.date = date
      hits == SelectSeq(rows, match)
  IN  OrderBy([i \in 1..Len(hits) |-> wf_select(hits[i])],
              [i \in 1..Len(hits) |-> hits[i].snap])

\* Fault variant of x_vals: the base label taken from the first row's
\* Snapshot Date instead of its Previous Snapshot Date.
x_vals_snapshot_base(wf_df) ==
  <<[pre |-> "Base", md |-> strftime_md(wf_df[1].snap)]>>
  \o [i \in 1..Len(wf_df) |-> [pre |-> "", md |-> strftime_md(wf_df[i].snap)]]
  \o <<[pre |-> "Final", md |-> <<>>]>>

x_vals(wf_df) ==
  <<[pre |-> "Base", md |-> strftime_md(wf_df[1].prev)]>>
  \o [i \in 1..Len(wf_df) |-> [pre |-> "", md |-> strftime_md(wf_df[i].snap)]]
  \o <<[pre |-> "Final", md |-> <<>>]>>

\* Fault variant of y_vals: the base taken from Tot.Inventory_daily.
y_vals_daily_base(wf_df) ==
  <<Some(wf_df[1].totDaily)>>
  \o [i \in 1..Len(wf_df) |-> Some(wf_df[i].delta)]
  \o <<None>>

y_vals(wf_df) ==
  <<Some(wf_df[1].totPrev)>>
  \o [i \in 1..Len(wf_df) |-> Some(wf_df[i].delta)]
  \o <<None>>

measure(wf_df) ==
  <<"absolute">> \o [i \in 1..Len(wf_df) |-> "relative"] \o <<"total">>

\* Fault variant of Waterfall: the rows are sorted by Snapshot Date again
\* before the arrays are built.
WaterfallSorted(wf_df) ==
  LET sorted == CHOOSE o \in OrderBy(wf_df, [i \in 1..Len(wf_df) |-> wf_df[i].snap]) : TRUE
  IN  [x |-> x_vals(sorted), measure |-> measure(sorted), y |-> y_vals(sorted)]

\* go.Waterfall(x=x_vals, measure=measure, y=y_vals, base=0)
Waterfall(wf_df) == [x |-> x_vals(wf_df), measure |-> measure(wf_df), y |-> y_vals(wf_df)]

NoFig == [x |-> <<>>, measure |-> <<>>, y |-> <<>>]

\* Fault variant of Tab1Plot: no wf_df.empty check; an empty frame is
\* plotted as a figure with no base and no step.
Tab1PlotUnchecked(wf_df) ==
  [out |-> "chart", wf_df |-> wf_df,
   fig |-> IF wf_df = <<>>
           THEN [x |-> <<[pre |-> "Final", md |-> <<>>]>>, measure |-> <<"total">>,
                 y |-> <<None>>]
           ELSE Waterfall(wf_df)]

\* if wf_df.empty: st.warning("No data found.")  else: the figure and the table
Tab1Plot(wf_df) ==
  IF wf_df = <<>>
  THEN [out |-> "warning: No data found.", wf_df |-> <<>>, fig |-> NoFig]
  ELSE [out |-> "chart", wf_df |-> wf_df, fig |-> Waterfall(wf_df)]

(***************************************************************************)
(* Tab 2: the series of one snapshot and its cumulative shortage.          *)
(***************************************************************************)
\* SELECT Date, "Tot.Inventory_daily", "Indep.Req_daily", "Net_Inventory_vs_Demand"
\* FROM daily WHERE "Item Code" = ? AND "Inv Org" = ? AND "Snapshot Date" = ?
\* ORDER BY Date
ts_select(r) == [date |-> r.date, totDaily |-> r.totDaily, req |-> r.req, net |-> r.net]

ts_query(rows, item, org, snap) ==
  LET match(r) == SqlEq(r.item, item) /\ SqlEq(r.org, org) /\ r.snap = snap
      hits == SelectSeq(rows, match)
  IN  OrderBy([i \in 1..Len(hits) |-> ts_select(hits[i])],
              [i \in 1..Len(hits) |-> hits[i].date])

\* Fault variant of total_short: the column is summed without the < 0 mask.
total_short_unmasked(ts_df) ==
  SumSeq([i \in 1..Len(ts_df) |-> ts_df[i].net])

\* ts_df[ts_df['Net_Inventory_vs_Demand'] < 0]['Net_Inventory_vs_Demand'].sum()
total_short(ts_df) ==
  LET mask(r) == r.net < 0
      kept == SelectSeq(ts_df, mask)
  IN  SumSeq([i \in 1..Len(kept) |-> kept[i].net])

\* SELECT * FROM variance WHERE "Item Code" = ? AND "Inv Org" = ? ORDER BY Date
var_query(rows, item, org) ==
  LET match(r) == SqlEq(r.item, item) /\ SqlEq(r.org, org)
      hits == SelectSeq(rows, match)
  IN  OrderBy(hits, [i \in 1..Len(hits) |-> hits[i].date])


(***************************************************************************)
(* State.                                                                  *)
(*   renders the number of renders started so far                          *)
(*   files   the working directory: path -> file                           *)
(*   con     the cached connection: view name -> path it selects from      *)
(*           ("" while the view does not exist)                            *)
(* and per session, the position and the script variables of its render.   *)
(***************************************************************************)
VARIABLES renders, files, con, pc, cur, uploaded, has, messages, row_count,
          selected_org, selected_item, tab1, tab2, tab3,
          phase, records, perm, plot_a, plot_b, series, short, tbl, key, fetched

render_vars == <<renders, files, con, pc, cur, uploaded, has, messages, row_count,
                 selected_org, selected_item, tab1, tab2, tab3>>
recon_vars == <<records, perm, plot_a, plot_b>>
short_vars == <<series, short>>
fetch_vars == <<tbl, key, fetched>>
vars == <<render_vars, phase, recon_vars, short_vars, fetch_vars>>

NoUploads == [t \in Range(Tables) |-> NoFile]
HasNone == [t \in Range(Tables) |-> FALSE]
Tab1None == [out |-> "none", target_date |-> None, wf_df |-> <<>>, fig |-> NoFig]
Tab2None == [out |-> "none", selected_snap |-> None, ts_df |-> <<>>, total_short |-> None]
Tab3None == [out |-> "none", var_df |-> <<>>]

\* A view can be queried when the file it selects from is parquet and has
\* the columns the query names; otherwise con.execute raises.
CanQuery(t, needed) ==
  /\ con[t] # ""
  /\ files[con[t]].bytes = "parquet"
  /\ needed \subseteq files[con[t]].cols

Scan(t) == files[con[t]].rows

\* The dataset a render hands to register_table for view t: its upload, or
\* the local file when nothing is uploaded.
Registered(s, t) ==
  IF uploaded[s][t] # NoFile THEN uploaded[s][t] ELSE files[LocalPath(t)]

RenderIdle ==
  /\ renders = 0
  /\ pc = [s \in Sessions |-> "idle"]
  /\ cur = [s \in Sessions |-> 1]
  /\ uploaded = [s \in Sessions |-> NoUploads]
  /\ has = [s \in Sessions |-> HasNone]
  /\ messages = [s \in Sessions |-> {}]
  /\ row_count = [s \in Sessions |-> None]
  /\ selected_org = [s \in Sessions |-> NULL]
  /\ selected_item = [s \in Sessions |-> NULL]
  /\ tab1 = [s \in Sessions |-> Tab1None]
  /\ tab2 = [s \in Sessions |-> Tab2None]
  /\ tab3 = [s \in Sessions |-> Tab3None]

NoPlot == [out |-> "none", wf_df |-> <<>>, fig |-> NoFig]
ReconIdle == records = <<>> /\ perm = <<>> /\ plot_a = NoPlot /\ plot_b = NoPlot
ShortIdle == series = <<>> /\ short = None
NoKey == [item |-> NULL, org |-> NULL, date |-> None]
FetchIdle == tbl = <<>> /\ key = NoKey /\ fetched = <<>>

\* get_db_connection(): a fresh in-memory database, no views.  The working
\* directory holds whichever default files are deployed and no temp file.
Init ==
  /\ \E l \in [Range(Tables) -> {NoFile, WfA, DailyA, VarA}] :
       /\ \A t \in Range(Tables) : l[t] \in LocalFiles(t)
       /\ files = [p \in Paths |->
                     IF \E t \in Range(Tables) : p = LocalPath(t)
                     THEN l[CHOOSE t \in Range(Tables) : p = LocalPath(t)]
                     ELSE NoFile]
  /\ con = [t \in Range(Tables) |-> ""]
  /\ RenderIdle
  /\ phase = "render"
  /\ ReconIdle /\ ShortIdle /\ FetchIdle

Finished(s) == pc[s] \in {"idle", "done", "halted", "crashed"}

\* A render starts: the script runs from the top with the session's current
\* uploads.
Run(s) ==
  /\ Finished(s)
  /\ renders < MaxRenders
  /\ renders' = renders + 1
  /\ \E u \in [Range(Tables) -> UNION {Uploads(t) : t \in Range(Tables)}] :
       /\ \A t \in Range(Tables) : u[t] \in Uploads(t)
       /\ uploaded' = [uploaded EXCEPT ![s] = u]
  /\ pc' = [pc EXCEPT ![s] = "register"]
  /\ cur' = [cur EXCEPT ![s] = 1]
  /\ has' = [has EXCEPT ![s] = HasNone]
  /\ messages' = [messages EXCEPT ![s] = {}]
  /\ row_count' = [row_count EXCEPT ![s] = None]
  /\ selected_org' = [selected_org EXCEPT ![s] = NULL]
  /\ selected_item' = [selected_item EXCEPT ![s] = NULL]
  /\ tab1' = [tab1 EXCEPT ![s] = Tab1None]
  /\ tab2' = [tab2 EXCEPT ![s] = Tab2None]
  /\ tab3' = [tab3 EXCEPT ![s] = Tab3None]
  /\ UNCHANGED <<files, con>>

\* register_table returns: the flag is assigned and the script goes on to the
\* next register_table call, or past the last one to the required-data check.
Returns(s, ok) ==
  /\ has' = [has EXCEPT ![s][Tables[cur[s]]] = ok]
  /\ IF cur[s] < Len(Tables)
     THEN pc' = [pc EXCEPT ![s] = "register"] /\ cur' = [cur EXCEPT ![s] = cur[s] + 1]
     ELSE pc' = [pc EXCEPT ![s] = "guard"] /\ UNCHANGED cur

\* con.execute("CREATE OR REPLACE VIEW t AS SELECT * FROM 'path'") inside the
\* try: binding the view reads the file; a file that is not parquet raises,
\* the except shows st.error and returns False.
CreateView(s, path) ==
  LET t == Tables[cur[s]] IN
  IF files[path].bytes = "parquet"
  THEN /\ con' = [con EXCEPT ![t] = path]
       /\ Returns(s, TRUE)
       /\ UNCHANGED messages
  ELSE /\ messages' = [messages EXCEPT ![s] = @ \cup {<<"error", "Error loading", t>>}]
       /\ Returns(s, FALSE)
       /\ UNCHANGED con

\* uploaded_file is not None: open(f"temp_{table_name}.parquet", "wb")
\* truncates the shared temp file.
RegisterOpen(s) ==
  LET t == Tables[cur[s]] IN
  /\ pc[s] = "register"
  /\ uploaded[s][t] # NoFile
  /\ files' = [files EXCEPT ![TempPath(t)] = EmptyFile]
  /\ pc' = [pc EXCEPT ![s] = "write"]
  /\ UNCHANGED <<renders, con, cur, uploaded, has, messages, row_count,
                 selected_org, selected_item, tab1, tab2, tab3>>

\* f.write(uploaded_file.getbuffer()) and close.  When another session wrote
\* the same file after this one opened it, the two writes overlap from
\* offset 0 and the file holds this upload or a mix of both.
RegisterWrite(s) ==
  LET t == Tables[cur[s]] IN
  /\ pc[s] = "write"
  /\ \E written \in (IF files[TempPath(t)] = EmptyFile
                     THEN {uploaded[s][t]}
                     ELSE {uploaded[s][t], Garbage}) :
       files' = [files EXCEPT ![TempPath(t)] = written]
  /\ pc' = [pc EXCEPT ![s] = "create_view"]
  /\ UNCHANGED <<renders, con, cur, uploaded, has, messages, row_count,
                 selected_org, selected_item, tab1, tab2, tab3>>

RegisterView(s) ==
  /\ pc[s] = "create_view"
  /\ CreateView(s, TempPath(Tables[cur[s]]))
  /\ UNCHANGED <<renders, files, uploaded, row_count, selected_org, selected_item, tab1, tab2, tab3>>

\* elif os.path.exists(local_path): the view is created over the local file.
RegisterLocal(s) ==
  LET t == Tables[cur[s]] IN
  /\ pc[s] = "register"
  /\ uploaded[s][t] = NoFile
  /\ files[LocalPath(t)] # NoFile
  /\ CreateView(s, LocalPath(t))
  /\ UNCHANGED <<renders, files, uploaded, row_count, selected_org, selected_item, tab1, tab2, tab3>>

\* else: return False
RegisterAbsent(s) ==
  LET t == Tables[cur[s]] IN
  /\ pc[s] = "register"
  /\ uploaded[s][t] = NoFile
  /\ files[LocalPath(t)] = NoFile
  /\ Returns(s, FALSE)
  /\ UNCHANGED <<renders, files, con, uploaded, messages, row_count,
                 selected_org, selected_item, tab1, tab2, tab3>>


\* Fault variant of Guard: only has_wf is tested.
GuardWaterfallOnly(s) ==
  /\ pc[s] = "guard"
  /\ IF ~has[s]["waterfall"]
     THEN /\ messages' = [messages EXCEPT ![s] = @ \cup
                            {<<"warning", "Please upload the required Parquet files">>,
                             <<"info", "Required: Waterfall Data and Daily Data.">>}]
          /\ pc' = [pc EXCEPT ![s] = "halted"]
     ELSE /\ pc' = [pc EXCEPT ![s] = "row_count"]
          /\ UNCHANGED messages
  /\ UNCHANGED <<renders, files, con, cur, uploaded, has, row_count,
                 selected_org, selected_item, tab1, tab2, tab3>>

\* if not (has_wf and has_daily): st.warning, st.info, st.stop()
Guard(s) ==
  /\ pc[s] = "guard"
  /\ IF ~(has[s]["waterfall"] /\ has[s]["daily"])
     THEN /\ messages' = [messages EXCEPT ![s] = @ \cup
                            {<<"warning", "Please upload the required Parquet files">>,
                             <<"info", "Required: Waterfall Data and Daily Data.">>}]
          /\ pc' = [pc EXCEPT ![s] = "halted"]
     ELSE /\ pc' = [pc EXCEPT ![s] = "row_count"]
          /\ UNCHANGED messages
  /\ UNCHANGED <<renders, files, con, cur, uploaded, has, row_count,
                 selected_org, selected_item, tab1, tab2, tab3>>

\* The view and the columns named by the query the script is about to run.
QueryOf(s) ==
  CASE pc[s] = "row_count" -> [t |-> "waterfall", cols |-> {}]
    [] pc[s] = "all_orgs" -> [t |-> "waterfall", cols |-> {"Inv Org"}]
    [] pc[s] = "avail_items" -> [t |-> "waterfall", cols |-> {"Item Code", "Inv Org"}]
    [] pc[s] = "tab1_dates" -> [t |-> "waterfall", cols |-> {"Date", "Item Code", "Inv Org"}]
    [] pc[s] = "tab1_data" -> [t |-> "waterfall", cols |-> WfCols]
    [] pc[s] = "tab2_snaps" -> [t |-> "daily", cols |-> {"Snapshot Date", "Item Code", "Inv Org"}]
    [] pc[s] = "tab2_data" -> [t |-> "daily", cols |-> DailyCols]
    [] pc[s] = "tab3" -> [t |-> "variance", cols |-> {"Item Code", "Inv Org", "Date"}]

AtQuery(s) ==
  \/ pc[s] \in {"row_count", "all_orgs", "avail_items", "tab1_dates", "tab1_data",
                "tab2_snaps", "tab2_data"}
  \/ pc[s] = "tab3" /\ has[s]["variance"]

QueryOk(s) == AtQuery(s) /\ CanQuery(QueryOf(s).t, QueryOf(s).cols)

\* A con.execute outside register_table has no try around it: when it
\* raises, the exception leaves the script and the render ends there.
QueryRaises(s) ==
  /\ AtQuery(s)
  /\ ~CanQuery(QueryOf(s).t, QueryOf(s).cols)
  /\ pc' = [pc EXCEPT ![s] = "crashed"]
  /\ UNCHANGED <<renders, files, con, cur, uploaded, has, messages, row_count,
                 selected_org, selected_item, tab1, tab2, tab3>>

\* row_count = con.execute("SELECT COUNT(*) FROM waterfall").fetchone()[0]
RowCount(s) ==
  /\ pc[s] = "row_count"
  /\ QueryOk(s)
  /\ row_count' = [row_count EXCEPT ![s] = Some(Len(Scan("waterfall")))]
  /\ messages' = [messages EXCEPT ![s] = @ \cup {<<"sidebar.info", "Loaded waterfall rows">>}]
  /\ pc' = [pc EXCEPT ![s] = "all_orgs"]
  /\ UNCHANGED <<renders, files, con, cur, uploaded, has, selected_org, selected_item, tab1, tab2, tab3>>

\* st.selectbox(label, options): the user's choice among the options, None
\* when there is no option.
selectbox(options) == IF options = {} THEN {NULL} ELSE options

\* all_orgs = SELECT DISTINCT "Inv Org" FROM waterfall; selected_org = selectbox
AllOrgs(s) ==
  /\ pc[s] = "all_orgs"
  /\ QueryOk(s)
  /\ LET all_orgs == {r.org : r \in Range(Scan("waterfall"))}
     IN  \E o \in selectbox(all_orgs) : selected_org' = [selected_org EXCEPT ![s] = o]
  /\ pc' = [pc EXCEPT ![s] = "avail_items"]
  /\ UNCHANGED <<renders, files, con, cur, uploaded, has, messages, row_count, selected_item,
                 tab1, tab2, tab3>>

\* avail_items = SELECT DISTINCT "Item Code" FROM waterfall WHERE "Inv Org" = ?
\* if not avail_items: st.sidebar.warning, st.stop()
AvailItems(s) ==
  /\ pc[s] = "avail_items"
  /\ QueryOk(s)
  /\ LET avail_items == {r.item : r \in {q \in Range(Scan("waterfall")) :
                                            SqlEq(q.org, selected_org[s])}}
     IN  IF avail_items = {}
         THEN /\ messages' = [messages EXCEPT ![s] = @ \cup
                                {<<"sidebar.warning", "No items found for this Org.">>}]
              /\ pc' = [pc EXCEPT ![s] = "halted"]
              /\ UNCHANGED selected_item
         ELSE /\ \E i \in selectbox(avail_items) :
                   selected_item' = [selected_item EXCEPT ![s] = i]
              /\ pc' = [pc EXCEPT ![s] = "tab1_dates"]
              /\ UNCHANGED messages
  /\ UNCHANGED <<renders, files, con, cur, uploaded, has, row_count, selected_org, tab1, tab2, tab3>>

\* Tab 1, available dates: empty -> st.warning("No waterfall data selection.")
Tab1Dates(s) ==
  /\ pc[s] = "tab1_dates"
  /\ QueryOk(s)
  /\ LET avail_dates == {r.date : r \in {q \in Range(Scan("waterfall")) :
                                            /\ SqlEq(q.item, selected_item[s])
                                            /\ SqlEq(q.org, selected_org[s])}}
     IN  IF avail_dates = {}
         THEN /\ tab1' = [tab1 EXCEPT ![s].out = "warning: No waterfall data selection."]
              /\ pc' = [pc EXCEPT ![s] = "tab2_snaps"]
         ELSE /\ \E d \in avail_dates : tab1' = [tab1 EXCEPT ![s].target_date = Some(d)]
              /\ pc' = [pc EXCEPT ![s] = "tab1_data"]
  /\ UNCHANGED <<renders, files, con, cur, uploaded, has, messages, row_count,
                 selected_org, selected_item, tab2, tab3>>

\* Tab 1, data for the plot: wf_df.empty -> st.warning("No data found."),
\* else the waterfall figure and the table.
Tab1Data(s) ==
  /\ pc[s] = "tab1_data"
  /\ QueryOk(s)
  /\ \E wf_df \in wf_query(Scan("waterfall"), selected_item[s], selected_org[s],
                            tab1[s].target_date[1]) :
       LET plot == Tab1Plot(wf_df)
       IN  tab1' = [tab1 EXCEPT ![s].out = plot.out, ![s].wf_df = plot.wf_df,
                                ![s].fig = plot.fig]
  /\ pc' = [pc EXCEPT ![s] = "tab2_snaps"]
  /\ UNCHANGED <<renders, files, con, cur, uploaded, has, messages, row_count,
                 selected_org, selected_item, tab2, tab3>>

\* Tab 2, snapshots of the daily table: empty -> st.write("No daily data.")
Tab2Snaps(s) ==
  /\ pc[s] = "tab2_snaps"
  /\ QueryOk(s)
  /\ LET all_snaps == {r.snap : r \in {q \in Range(Scan("daily")) :
                                          /\ SqlEq(q.item, selected_item[s])
                                          /\ SqlEq(q.org, selected_org[s])}}
     IN  IF all_snaps = {}
         THEN /\ tab2' = [tab2 EXCEPT ![s].out = "No daily data."]
              /\ pc' = [pc EXCEPT ![s] = "tab3"]
         ELSE /\ \E d \in all_snaps : tab2' = [tab2 EXCEPT ![s].selected_snap = Some(d)]
              /\ pc' = [pc EXCEPT ![s] = "tab2_data"]
  /\ UNCHANGED <<renders, files, con, cur, uploaded, has, messages, row_count,
                 selected_org, selected_item, tab1, tab3>>

\* Tab 2, the series of the selected snapshot, the line chart and the metric.
Tab2Data(s) ==
  /\ pc[s] = "tab2_data"
  /\ QueryOk(s)
  /\ \E ts_df \in ts_query(Scan("daily"), selected_item[s], selected_org[s],
                            tab2[s].selected_snap[1]) :
       tab2' = [tab2 EXCEPT ![s].out = "chart", ![s].ts_df = ts_df,
                            ![s].total_short = Some(total_short(ts_df))]
  /\ pc' = [pc EXCEPT ![s] = "tab3"]
  /\ UNCHANGED <<renders, files, con, cur, uploaded, has, messages, row_count,
                 selected_org, selected_item, tab1, tab3>>

\* Tab 3 with variance data: the table, and the scatter when it has rows.
Tab3Variance(s) ==
  /\ pc[s] = "tab3"
  /\ has[s]["variance"]
  /\ QueryOk(s)
  /\ \E var_df \in var_query(Scan("variance"), selected_item[s], selected_org[s]) :
       tab3' = [tab3 EXCEPT ![s] = [out |-> IF var_df = <<>> THEN "table" ELSE "table+scatter",
                                    var_df |-> var_df]]
  /\ pc' = [pc EXCEPT ![s] = "done"]
  /\ UNCHANGED <<renders, files, con, cur, uploaded, has, messages, row_count,
                 selected_org, selected_item, tab1, tab2>>

\* Fault variant of Tab3NoVariance: st.stop() after the warning.
Tab3NoVarianceStops(s) ==
  /\ pc[s] = "tab3"
  /\ ~has[s]["variance"]
  /\ tab3' = [tab3 EXCEPT ![s].out = "warning: Variance data not uploaded."]
  /\ pc' = [pc EXCEPT ![s] = "halted"]
  /\ UNCHANGED <<renders, files, con, cur, uploaded, has, messages, row_count,
                 selected_org, selected_item, tab1, tab2>>

\* Tab 3 without: st.warning("Variance data not uploaded.")
Tab3NoVariance(s) ==
  /\ pc[s] = "tab3"
  /\ ~has[s]["variance"]
  /\ tab3' = [tab3 EXCEPT ![s].out = "warning: Variance data not uploaded."]
  /\ pc' = [pc EXCEPT ![s] = "done"]
  /\ UNCHANGED <<renders, files, con, cur, uploaded, has, messages, row_count,
                 selected_org, selected_item, tab1, tab2>>

pure_vars == <<phase, recon_vars, short_vars, fetch_vars>>

Next ==
  \/ \E s \in Sessions : Run(s) /\ UNCHANGED pure_vars
  \/ \E s \in Sessions : RegisterOpen(s) /\ UNCHANGED pure_vars
  \/ \E s \in Sessions : RegisterWrite(s) /\ UNCHANGED pure_vars
  \/ \E s \in Sessions : RegisterView(s) /\ UNCHANGED pure_vars
  \/ \E s \in Sessions : RegisterLocal(s) /\ UNCHANGED pure_vars
  \/ \E s \in Sessions : RegisterAbsent(s) /\ UNCHANGED pure_vars
  \/ \E s \in Sessions : Guard(s) /\ UNCHANGED pure_vars
  \/ \E s \in Sessions : QueryRaises(s) /\ UNCHANGED pure_vars
  \/ \E s \in Sessions : RowCount(s) /\ UNCHANGED pure_vars
  \/ \E s \in Sessions : AllOrgs(s) /\ UNCHANGED pure_vars
  \/ \E s \in Sessions : AvailItems(s) /\ UNCHANGED pure_vars
  \/ \E s \in Sessions : Tab1Dates(s) /\ UNCHANGED pure_vars
  \/ \E s \in Sessions : Tab1Data(s) /\ UNCHANGED pure_vars
  \/ \E s \in Sessions : Tab2Snaps(s) /\ UNCHANGED pure_vars
  \/ \E s \in Sessions : Tab2Data(s) /\ UNCHANGED pure_vars
  \/ \E s \in Sessions : Tab3Variance(s) /\ UNCHANGED pure_vars
  \/ \E s \in Sessions : Tab3NoVariance(s) /\ UNCHANGED pure_vars

Spec == Init /\ [][Next]_vars


(***************************************************************************)
(* The three computations on their own, over every input up to MaxLen      *)
(* rows: the reconstruction of tab 1 (on a sequence and on a permutation   *)
(* of it), the shortage metric of tab 2, and the fetch of tab 1.           *)
(***************************************************************************)
SeqsUpTo(S, n) == UNION {[1..k -> S] : k \in 0..n}

RenderParked ==
  /\ files = [p \in Paths |-> NoFile]
  /\ con = [t \in Range(Tables) |-> ""]
  /\ RenderIdle

WfRowPool == Range(WfA.rows) \cup Range(WfB.rows)
RecordPool == {wf_select(r) : r \in WfRowPool}

Permuted(seq, p) == [i \in 1..Len(seq) |-> seq[p[i]]]

InitRecon ==
  /\ RenderParked /\ ShortIdle /\ FetchIdle
  /\ phase = "input"
  /\ records \in SeqsUpTo(RecordPool, MaxLen)
  /\ perm \in Perms(Len(records))
  /\ plot_a = NoPlot /\ plot_b = NoPlot

Reconstruct ==
  /\ phase = "input"
  /\ phase' = "output"
  /\ plot_a' = Tab1Plot(records)
  /\ plot_b' = Tab1Plot(Permuted(records, perm))
  /\ UNCHANGED <<render_vars, records, perm, short_vars, fetch_vars>>

NextRecon == Reconstruct

SpecRecon == InitRecon /\ [][NextRecon]_vars

NetPool == {-10, -3, 0, 5}
SeriesPool == {[date |-> 20240201, totDaily |-> 100, req |-> 100 - n, net |-> n] : n \in NetPool}

InitShort ==
  /\ RenderParked /\ ReconIdle /\ FetchIdle
  /\ phase = "input"
  /\ series \in SeqsUpTo(SeriesPool, MaxLen)
  /\ short = None

Shortage ==
  /\ phase = "input"
  /\ phase' = "output"
  /\ short' = Some(total_short(series))
  /\ UNCHANGED <<render_vars, recon_vars, series, fetch_vars>>

NextShort == Shortage

SpecShort == InitShort /\ [][NextShort]_vars

KeyPool == [item : {"A", "B"}, org : {"O1", "O2"}, date : {Some(20240201), Some(20240301)}]

InitFetch ==
  /\ RenderParked /\ ReconIdle /\ ShortIdle
  /\ phase = "input"
  /\ tbl \in SeqsUpTo(WfRowPool, MaxLen)
  /\ key \in KeyPool
  /\ fetched = <<>>

Fetch ==
  /\ phase = "input"
  /\ phase' = "output"
  /\ fetched' \in wf_query(tbl, key.item, key.org, key.date[1])
  /\ UNCHANGED <<render_vars, recon_vars, short_vars, tbl, key>>

NextFetch == Fetch

SpecFetch == InitFetch /\ [][NextFetch]_vars


(***************************************************************************)
(* Properties of the reconstruction (SpecRecon).                           *)
(***************************************************************************)
Reconstructed == phase = "output" /\ records # <<>>

\* C1: for every non-empty sequence of records handed to the tab 1
\* reconstruction, the figure has exactly one 'relative' entry per record,
\* the i-th carrying the i-th record's Delta_Inventory, and the base value
\* is the first record's Tot.Inventory_previous.
C1_OneStepPerRecord ==
  Reconstructed =>
    /\ plot_a.out = "chart"
    /\ Cardinality({i \in DOMAIN plot_a.fig.measure : plot_a.fig.measure[i] = "relative"})
         = Len(records)
    /\ \A i \in 1..Len(records) :
         /\ plot_a.fig.measure[i + 1] = "relative"
         /\ plot_a.fig.y[i + 1] = Some(records[i].delta)
    /\ plot_a.fig.y[1] = Some(records[1].totPrev)

\* Three records with different deltas, the first with a base that differs
\* from every other inventory figure of the row.
C1_Witness ==
  /\ Reconstructed
  /\ Len(records) = 3
  /\ records[1].delta # records[2].delta /\ records[2].delta # records[3].delta
  /\ records[1].totPrev # records[1].totDaily
  /\ plot_a.out = "chart"

\* C8: the reconstruction does not re-sort: the i-th step (label and delta)
\* of the figure built from a permutation of the records is the step the
\* original figure has for the record the permutation puts at i, and the
\* base (label and value) comes from the record that is first after the
\* permutation.
C8_PermutationEquivariant ==
  Reconstructed =>
    /\ plot_b.out = "chart"
    /\ \A i \in 1..Len(records) :
         /\ plot_b.fig.x[i + 1] = plot_a.fig.x[perm[i] + 1]
         /\ plot_b.fig.y[i + 1] = plot_a.fig.y[perm[i] + 1]
    /\ plot_b.fig.y[1] = Some(records[perm[1]].totPrev)
    /\ plot_b.fig.x[1] = [pre |-> "Base", md |-> strftime_md(records[perm[1]].prev)]

\* Records in ascending snapshot order, permuted into an order that is not
\* ascending, with a different record first.
C8_Witness ==
  /\ Reconstructed
  /\ Len(records) = 3
  /\ records[1].snap < records[2].snap /\ records[2].snap < records[3].snap
  /\ perm = <<3, 1, 2>>
  /\ plot_b.fig.y[1] # plot_a.fig.y[1]
  /\ plot_b.fig.y[2] = plot_a.fig.y[4]

\* C9: for n >= 1 records the three arrays of the figure have length n + 2
\* and are aligned: position 0 is 'Base (<mm-dd of the first record's
\* Previous Snapshot Date>)' with the base value and measure 'absolute',
\* positions 1..n are 'relative', the last is 'Final' with measure 'total'
\* and no value.
C9_ArraysAligned ==
  Reconstructed =>
    LET n == Len(records)
        fig == plot_a.fig
    IN  /\ Len(fig.x) = n + 2 /\ Len(fig.y) = n + 2 /\ Len(fig.measure) = n + 2
        /\ fig.x[1].pre = "Base"
        /\ fig.x[1].md = <<(records[1].prev \div 100) % 100, records[1].prev % 100>>
        /\ fig.y[1] = Some(records[1].totPrev)
        /\ fig.measure[1] = "absolute"
        /\ \A i \in 2..(n + 1) : fig.measure[i] = "relative" /\ fig.y[i] # None
        /\ fig.x[n + 2].pre = "Final"
        /\ fig.measure[n + 2] = "total"
        /\ fig.y[n + 2] = None

\* Two records whose base label differs from the first step's label, the
\* first record's previous snapshot lying in another year than its snapshot.
C9_Witness ==
  /\ Reconstructed
  /\ Len(records) = 2
  /\ records[1].prev \div 10000 # records[1].snap \div 10000
  /\ plot_a.fig.x[1].md = <<12, 25>>
  /\ plot_a.fig.x[2].md = <<1, 8>>
  /\ Len(plot_a.fig.x) = 4

(***************************************************************************)
(* Properties of the shortage metric (SpecShort).                          *)
(***************************************************************************)
RECURSIVE NegativePart(_, _)
NegativePart(seq, i) ==
  IF i = 0 THEN 0
  ELSE NegativePart(seq, i - 1) + (IF seq[i].net < 0 THEN seq[i].net ELSE 0)

\* C7: the cumulative shortage is the sum of exactly the strictly negative
\* Net_Inventory_vs_Demand values of the series: zero and positive values
\* add nothing, the result is 0 when no value is negative and is never
\* positive; nets [-10, 5, -3] give -13.
C7_ShortageSumsNegatives ==
  phase = "output" =>
    /\ short = Some(NegativePart(series, Len(series)))
    /\ short[1] <= 0
    /\ (short[1] = 0) = (\A i \in DOMAIN series : series[i].net >= 0)
    /\ ([i \in DOMAIN series |-> series[i].net] = <<-10, 5, -3>> => short = Some(-13))

C7_Witness ==
  /\ phase = "output"
  /\ [i \in DOMAIN series |-> series[i].net] = <<-10, 5, -3>>
  /\ short = Some(-13)

(***************************************************************************)
(* Properties of the fetch (SpecFetch).                                    *)
(***************************************************************************)
KeyMatches(r) == r.item = key.item /\ r.org = key.org /\ r.date = key.date[1]

\* C10: the records fetched for the waterfall are exactly the waterfall rows
\* whose Item Code, Inv Org and Date equal the selected item, org and target
\* date (each as often as it occurs, none from another key), in ascending
\* order of Snapshot Date.
C10_FetchExactAndOrdered ==
  phase = "output" =>
    /\ Len(fetched) = Cardinality({i \in DOMAIN tbl : KeyMatches(tbl[i])})
    /\ \A rec \in RecordPool :
         Cardinality({i \in DOMAIN fetched : fetched[i] = rec})
           = Cardinality({i \in DOMAIN tbl : KeyMatches(tbl[i]) /\ wf_select(tbl[i]) = rec})
    /\ \A i, j \in DOMAIN fetched : i < j => fetched[i].snap <= fetched[j].snap

\* A table holding two rows of the key in descending snapshot order and a
\* row of the same item and org for another date.
C10_Witness ==
  /\ phase = "output"
  /\ Len(tbl) = 3
  /\ KeyMatches(tbl[1]) /\ KeyMatches(tbl[2]) /\ tbl[1].snap > tbl[2].snap
  /\ tbl[3].item = key.item /\ tbl[3].org = key.org /\ tbl[3].date # key.date[1]
  /\ fetched = <<wf_select(tbl[2]), wf_select(tbl[1])>>


(***************************************************************************)
(* Properties of the render (Spec).                                        *)
(***************************************************************************)
Registering(s) == pc[s] \in {"idle", "register", "write", "create_view"}
PastGuard(s) == ~Registering(s) /\ pc[s] # "guard"
HasRequired(s) == has[s]["waterfall"] /\ has[s]["daily"]

MissingDataShown(s) ==
  /\ <<"warning", "Please upload the required Parquet files">> \in messages[s]
  /\ <<"info", "Required: Waterfall Data and Daily Data.">> \in messages[s]
NoItemsShown(s) == <<"sidebar.warning", "No items found for this Org.">> \in messages[s]

NoTab(s) == tab1[s] = Tab1None /\ tab2[s] = Tab2None /\ tab3[s] = Tab3None
NothingDownstream(s) ==
  /\ row_count[s] = None
  /\ <<"sidebar.info", "Loaded waterfall rows">> \notin messages[s]
  /\ selected_org[s] = NULL /\ selected_item[s] = NULL
  /\ NoTab(s)

\* C2: when the records fetched for the selected item, org and target date
\* are empty, tab 1 shows the 'No data found.' warning and no figure is
\* built; a figure exists only with at least one step.
C2_EmptyGivesWarningNoPlot ==
  \A s \in Sessions :
    /\ (tab1[s].target_date # None /\ tab1[s].wf_df = <<>>
          /\ pc[s] \in {"tab2_snaps", "tab2_data", "tab3", "done"})
         => (tab1[s].out = "warning: No data found." /\ tab1[s].fig = NoFig)
    /\ tab1[s].out = "warning: No data found." => (tab1[s].wf_df = <<>> /\ tab1[s].fig = NoFig)
    /\ tab1[s].fig # NoFig =>
         /\ tab1[s].out = "chart"
         /\ tab1[s].wf_df # <<>>
         /\ \E i \in DOMAIN tab1[s].fig.measure : tab1[s].fig.measure[i] = "relative"

\* A render whose target date was selected and whose fetch then found no row.
C2_Witness ==
  \E s \in Sessions :
    /\ tab1[s].target_date # None
    /\ tab1[s].out = "warning: No data found."
    /\ pc[s] = "done"

\* C3: when a required dataset (waterfall or daily) is not registered, the
\* render halts after the diagnostic and produces nothing downstream: no row
\* count, no selector, no tab.  With both registered the diagnostic halt
\* never happens, whatever the variance dataset.
C3_MissingRequiredHalts ==
  \A s \in Sessions :
    PastGuard(s) =>
      IF HasRequired(s)
      THEN ~MissingDataShown(s)
      ELSE pc[s] = "halted" /\ MissingDataShown(s) /\ NothingDownstream(s)

\* The daily registration raised and was reported; the render halted.
C3_Witness ==
  \E s \in Sessions :
    /\ pc[s] = "halted"
    /\ has[s]["waterfall"] /\ ~has[s]["daily"]
    /\ <<"error", "Error loading", "daily">> \in messages[s]
    /\ MissingDataShown(s)

\* C4 as stated: in every render with both required datasets registered the
\* render is never halted and a finished render has produced all three tabs.
C4_OnlyMissingDataHalts ==
  \A s \in Sessions :
    (PastGuard(s) /\ HasRequired(s)) =>
      /\ pc[s] # "halted"
      /\ pc[s] = "done" => (tab1[s].out # "none" /\ tab2[s].out # "none" /\ tab3[s].out # "none")

\* C4 amended: an empty result inside a tab is recovered in that tab (its
\* inline message, then the next tab), and a render that runs to its end has
\* produced all three tabs; a halted render is either one with a required
\* dataset missing or one whose item list for the selected org is empty,
\* which stops after the sidebar warning before any tab is produced.
C4_HaltsOnMissingDataOrNoItems ==
  \A s \in Sessions :
    /\ pc[s] = "halted" =>
         \/ ~HasRequired(s) /\ MissingDataShown(s)
         \/ HasRequired(s) /\ NoItemsShown(s) /\ ~MissingDataShown(s) /\ NoTab(s)
    /\ pc[s] = "done" => (tab1[s].out # "none" /\ tab2[s].out # "none" /\ tab3[s].out # "none")
    /\ tab1[s].out \in {"warning: No waterfall data selection.", "warning: No data found."}
         => pc[s] \in {"tab2_snaps", "tab2_data", "tab3", "done", "crashed"}
    /\ tab2[s].out = "No daily data." => pc[s] \in {"tab3", "done", "crashed"}
    /\ tab3[s].out = "warning: Variance data not uploaded." => pc[s] = "done"

\* Both required datasets registered, no item for the selected org: halted
\* with the sidebar warning and no tab.
C4_Witness ==
  \E s \in Sessions :
    /\ pc[s] = "halted"
    /\ HasRequired(s)
    /\ NoItemsShown(s)
    /\ row_count[s] = Some(0)

\* C5 as stated: no failure of a query leaves the render; every failure is
\* caught where it happens and the rest of the render is still produced.
C5_QueryFailureCaught ==
  \A s \in Sessions : pc[s] # "crashed"

\* C6 as stated: every query of a render reads the dataset that render
\* registered: the row count it shows is the row count of its own waterfall
\* dataset.
C6_ReadsOwnDataset ==
  \A s \in Sessions :
    row_count[s] # None => row_count[s] = Some(Len(Registered(s, "waterfall").rows))

====
